---- MODULE Spec2Model ----
(***************************************************************************)
(* Feedback_Management: the feedback lifecycle, voting, comment, invitation *)
(* and board permission core (feedback/models.py, feedback/views.py,        *)
(* feedback/serializers.py, feedback/signals.py, feedback/admin.py).        *)
(*                                                                          *)
(* One Board, one Feedback on it, the Comments on the Feedback and one      *)
(* BoardInvitation to the Board are modelled, with the relational store as  *)
(* the state; the Board table is modelled a second time as the list of its  *)
(* names and slugs.  A many-to-many relation is the set of its rows.        *)
(***************************************************************************)
EXTENDS Integers, FiniteSets, Sequences, TLC

\* ------------------------------------------------------------------ bounds
NumUsers == 2        \* registered users 1..NumUsers
MaxChanges == 1      \* changes of the status value explored per Feedback
NumCalls == 2        \* requests in flight at once in the interleaved specs
MaxTime == 2         \* timezone.now() runs over 0..MaxTime
MaxBoards == 3       \* Board rows created
MaxComments == 2     \* Comment rows created on the Feedback
MaxFeedback == 2     \* Feedback rows created
MaxThread == 3       \* Comment rows of a thread that is read or deleted

\* ------------------------------------------------------- program constants
Anon == 0            \* AnonymousUser: the one user with is_authenticated False
Null == 0            \* a null foreign key to a Comment
HTTP_200_OK == 200
HTTP_201_CREATED == 201
HTTP_204_NO_CONTENT == 204
HTTP_403_FORBIDDEN == 403
HTTP_404_NOT_FOUND == 404
HTTP_400_BAD_REQUEST == 400

Users == 1..NumUsers
Requesters == Users \cup {Anon}
Calls == 1..NumCalls
Times == 0..MaxTime
CommentIds == 1..MaxComments
ThreadIds == 1..MaxThread
FeedbackIds == 1..MaxFeedback

Roles == {"admin", "moderator", "contributor"}
Visibility == {"public", "private"}
Status == {"draft", "pending", "under_review", "planned", "in_progress",
           "completed", "declined", "duplicate"}
\* vote_type values handed to add_vote; "other" stands for any string that is
\* neither 'upvote' nor 'downvote'
VoteTypes == {"upvote", "downvote", "other"}
VoteChoices == {"upvote", "downvote"}

VARIABLES
    role,        \* role[u]: User.role of each registered user
    board,       \* the Board row and its moderators / members relations
    feedback,    \* the Feedback row and its upvotes / downvotes relations
    history,     \* FeedbackStatusHistory rows of the Feedback, oldest first
    status_log,  \* every change of the stored status value, as <<old, new>>, oldest first
    calls,       \* calls[c]: the request in flight in slot c (interleaved specs)
    ret,         \* the last completed call: what was called, with what, and what it returned
    invitation,  \* the BoardInvitation row to the Board
    now,         \* timezone.now()
    boards,      \* the Board rows in creation order, as name and slug
    comments     \* comments[pk]: the Comment rows on the Feedback and their vote relations

vars == <<role, board, feedback, history, status_log, calls, ret,
          invitation, now, boards, comments>>

\* --------------------------------------------------------------- User
is_authenticated(user) == user # Anon

is_admin(user) == role[user] = "admin"

\* ------------------------------------------------- many-to-many managers
M2MAdd(rel, user) == rel \cup {user}

M2MRemove(rel, user) == rel \ {user}

\* ------------------------------------------------------------------ Board
\* can_access without the members test
Board_can_access_NoMembers(b, user) ==
    IF ~b.is_active THEN FALSE
    ELSE IF b.visibility = "public" THEN TRUE
    ELSE IF ~is_authenticated(user) THEN FALSE
    ELSE user = b.owner \/ user \in b.moderators \/ is_admin(user)

Board_can_access(b, user) ==
    IF ~b.is_active THEN FALSE
    ELSE IF b.visibility = "public" THEN TRUE
    ELSE IF ~is_authenticated(user) THEN FALSE
    ELSE \/ user = b.owner
         \/ user \in b.moderators
         \/ user \in b.members
         \/ is_admin(user)

\* can_moderate testing User.can_moderate (role admin or moderator) in place of is_admin
Board_can_moderate_ByGlobalRole(b, user) ==
    IF ~is_authenticated(user) THEN FALSE
    ELSE \/ user = b.owner
         \/ user \in b.moderators
         \/ role[user] \in {"admin", "moderator"}

Board_can_moderate(b, user) ==
    IF ~is_authenticated(user) THEN FALSE
    ELSE \/ user = b.owner
         \/ user \in b.moderators
         \/ is_admin(user)

\* can_edit testing User.can_moderate (role admin or moderator) in place of is_admin
Board_can_edit_ByGlobalRole(b, user) ==
    IF ~is_authenticated(user) THEN FALSE
    ELSE user = b.owner \/ role[user] \in {"admin", "moderator"}

Board_can_edit(b, user) ==
    IF ~is_authenticated(user) THEN FALSE
    ELSE user = b.owner \/ is_admin(user)

\* --------------------------------------------------------------- Feedback
vote_count(f) == Cardinality(f.upvotes) - Cardinality(f.downvotes)

total_votes(f) == Cardinality(f.upvotes) + Cardinality(f.downvotes)

\* can_vote without the board.allow_voting test
Feedback_can_vote_IgnoresBoard(f, b, user) ==
    IF ~is_authenticated(user) THEN FALSE
    ELSE IF ~f.is_active THEN FALSE
    ELSE TRUE

Feedback_can_vote(f, b, user) ==
    IF ~is_authenticated(user) THEN FALSE
    ELSE IF ~b.allow_voting THEN FALSE
    ELSE IF ~f.is_active THEN FALSE
    ELSE TRUE

\* add_vote returns the pair (return value, the Feedback's relations afterwards)

\* add_vote without the remove from the opposite relation
Feedback_add_vote_KeepsOpposite(f, b, user, vote_type) ==
    IF ~Feedback_can_vote(f, b, user) THEN [result |-> FALSE, f |-> f]
    ELSE IF vote_type = "upvote"
         THEN [result |-> TRUE, f |-> [f EXCEPT !.upvotes = M2MAdd(@, user)]]
    ELSE IF vote_type = "downvote"
         THEN [result |-> TRUE, f |-> [f EXCEPT !.downvotes = M2MAdd(@, user)]]
    ELSE [result |-> FALSE, f |-> f]

\* add_vote with clear() of the opposite relation in place of remove(user)
Feedback_add_vote_ClearsOpposite(f, b, user, vote_type) ==
    IF ~Feedback_can_vote(f, b, user) THEN [result |-> FALSE, f |-> f]
    ELSE IF vote_type = "upvote"
         THEN [result |-> TRUE,
               f |-> [f EXCEPT !.upvotes = M2MAdd(@, user), !.downvotes = {}]]
    ELSE IF vote_type = "downvote"
         THEN [result |-> TRUE,
               f |-> [f EXCEPT !.downvotes = M2MAdd(@, user), !.upvotes = {}]]
    ELSE [result |-> FALSE, f |-> f]

Feedback_add_vote(f, b, user, vote_type) ==
    IF ~Feedback_can_vote(f, b, user) THEN [result |-> FALSE, f |-> f]
    ELSE IF vote_type = "upvote"
         THEN [result |-> TRUE,
               f |-> [f EXCEPT !.upvotes = M2MAdd(@, user),
                               !.downvotes = M2MRemove(@, user)]]
    ELSE IF vote_type = "downvote"
         THEN [result |-> TRUE,
               f |-> [f EXCEPT !.downvotes = M2MAdd(@, user),
                               !.upvotes = M2MRemove(@, user)]]
    ELSE [result |-> FALSE, f |-> f]

\* remove_vote without the downvotes.remove
Feedback_remove_vote_UpvotesOnly(f, user) ==
    [f EXCEPT !.upvotes = M2MRemove(@, user)]

Feedback_remove_vote(f, user) ==
    [f EXCEPT !.upvotes = M2MRemove(@, user), !.downvotes = M2MRemove(@, user)]

\* author is Anon for anonymous Feedback (author null)
Feedback_can_edit(f, b, user) ==
    IF ~is_authenticated(user) THEN FALSE
    ELSE IF is_admin(user) THEN TRUE
    ELSE IF user = f.author THEN TRUE
    ELSE Board_can_moderate(b, user)

\* can_delete without the author test
Feedback_can_delete_NoAuthor(f, b, user) ==
    IF ~is_authenticated(user) THEN FALSE
    ELSE IF is_admin(user) THEN TRUE
    ELSE Board_can_moderate(b, user)

Feedback_can_delete(f, b, user) ==
    IF ~is_authenticated(user) THEN FALSE
    ELSE IF is_admin(user) THEN TRUE
    ELSE IF user = f.author THEN TRUE
    ELSE Board_can_moderate(b, user)

\* ------------------------------------------------------- BoardInvitation
InvitationRoles == {"member", "moderator"}

InvitationStatus == {"pending", "accepted", "declined", "expired"}

\* t is timezone.now()
is_expired(inv, t) == t > inv.expires_at

\* accept and decline return the triple (return value, the invitation row
\* afterwards, the Board's relations afterwards)

\* accept without the is_expired test
BoardInvitation_accept_IgnoresExpiry(inv, b, user, t) ==
    IF inv.status # "pending" THEN [result |-> FALSE, inv |-> inv, b |-> b]
    ELSE [result |-> TRUE,
          inv |-> [inv EXCEPT !.status = "accepted", !.responded_at = <<t>>],
          b |-> IF inv.role = "moderator"
                THEN [b EXCEPT !.moderators = M2MAdd(@, user)]
                ELSE [b EXCEPT !.members = M2MAdd(@, user)]]

\* accept adding the user to members whatever the invitation's role
BoardInvitation_accept_AlwaysMember(inv, b, user, t) ==
    IF inv.status # "pending" \/ is_expired(inv, t)
    THEN [result |-> FALSE, inv |-> inv, b |-> b]
    ELSE [result |-> TRUE,
          inv |-> [inv EXCEPT !.status = "accepted", !.responded_at = <<t>>],
          b |-> [b EXCEPT !.members = M2MAdd(@, user)]]

BoardInvitation_accept(inv, b, user, t) ==
    IF inv.status # "pending" \/ is_expired(inv, t)
    THEN [result |-> FALSE, inv |-> inv, b |-> b]
    ELSE [result |-> TRUE,
          inv |-> [inv EXCEPT !.status = "accepted", !.responded_at = <<t>>],
          b |-> IF inv.role = "moderator"
                THEN [b EXCEPT !.moderators = M2MAdd(@, user)]
                ELSE [b EXCEPT !.members = M2MAdd(@, user)]]

BoardInvitation_decline(inv, b, user, t) ==
    IF inv.status # "pending" \/ is_expired(inv, t)
    THEN [result |-> FALSE, inv |-> inv, b |-> b]
    ELSE [result |-> TRUE,
          inv |-> [inv EXCEPT !.status = "declined", !.responded_at = <<t>>],
          b |-> b]


\* ---------------------------------------------------------------- Comment
Comment_vote_count(c) == Cardinality(c.upvotes) - Cardinality(c.downvotes)

\* can_vote without the board.allow_voting test
Comment_can_vote_IgnoresBoard(c, b, user) ==
    IF ~is_authenticated(user) THEN FALSE
    ELSE IF ~c.is_active THEN FALSE
    ELSE TRUE

\* b is comment.feedback.board
Comment_can_vote(c, b, user) ==
    IF ~is_authenticated(user) THEN FALSE
    ELSE IF ~b.allow_voting THEN FALSE
    ELSE IF ~c.is_active THEN FALSE
    ELSE TRUE

\* author is Anon for an anonymous Comment (author null)
Comment_can_edit(c, b, user) ==
    IF ~is_authenticated(user) THEN FALSE
    ELSE IF is_admin(user) THEN TRUE
    ELSE IF user = c.author THEN TRUE
    ELSE Board_can_moderate(b, user)


\* rows is the Comment table, a function from pk to row
Replies(rows, pk) == {c \in DOMAIN rows : rows[c].exists /\ rows[c].parent = pk}

\* self.replies.filter(is_active=True).count() without the filter
Comment_reply_count_AllReplies(rows, pk) == Cardinality(Replies(rows, pk))

Comment_reply_count(rows, pk) ==
    Cardinality({c \in Replies(rows, pk) : rows[c].is_active})

Comment_is_reply(rows, pk) == rows[pk].parent # Null

\* on_delete=CASCADE on Comment.parent: the rows collected for deletion with
\* the rows of pks, every row whose parent is collected being collected too

\* the cascade stopping at the direct replies
Collect_DirectReplies(rows, pks) == pks \cup UNION {Replies(rows, pk) : pk \in pks}

RECURSIVE Collect(_, _)
Collect(rows, pks) ==
    LET found == pks \cup UNION {Replies(rows, pk) : pk \in pks} IN
    IF found = pks THEN pks ELSE Collect(rows, found)


\* ------------------------------------------------------------ initial rows
DefaultRole(u) == IF u = 1 THEN "admin" ELSE IF u = 2 THEN "moderator" ELSE "contributor"

NewBoard == [is_active |-> TRUE, visibility |-> "public", owner |-> 1,
             moderators |-> {}, members |-> {}, allow_voting |-> TRUE]

NewFeedback == [status |-> "pending", is_active |-> TRUE, author |-> 1,
                assigned_to |-> Anon, upvotes |-> {}, downvotes |-> {}]

\* responded_at is <<>> while null and <<t>> once stamped with the time t
NewInvitation == [role |-> "member", status |-> "pending", expires_at |-> 0,
                  responded_at |-> <<>>]

\* parent is Null for a top-level comment; exists is false for a pk with no row
NewComment == [exists |-> TRUE, is_active |-> TRUE, author |-> Anon, parent |-> Null,
               upvotes |-> {}, downvotes |-> {}]

NoComment == [NewComment EXCEPT !.exists = FALSE]

NoComments == [pk \in CommentIds |-> NoComment]

Idle == [pc |-> "idle"]

NoCall == [op |-> "none", user |-> Anon, arg |-> "", result |-> FALSE,
           pre |-> NewFeedback, hist |-> <<>>]

\* pre and hist are the Feedback row and its history rows as the call found them
Returned(op, user, arg, result, pre) ==
    [op |-> op, user |-> user, arg |-> arg, result |-> result, pre |-> pre,
     hist |-> history]

\* ===================================================== votes, call by call
\* Feedback.add_vote and Feedback.remove_vote, each call one step.
InitVote ==
    /\ role = [u \in Users |-> DefaultRole(u)]
    /\ \E av \in BOOLEAN :
          board = [NewBoard EXCEPT !.allow_voting = av]
    /\ \E ia \in BOOLEAN, up \in SUBSET Users, down \in SUBSET Users :
          /\ up \cap down = {}
          /\ feedback = [NewFeedback EXCEPT !.is_active = ia,
                                            !.upvotes = up, !.downvotes = down]
    /\ history = <<>>
    /\ status_log = <<>>
    /\ calls = [c \in Calls |-> Idle]
    /\ ret = NoCall
    /\ invitation = NewInvitation
    /\ now = 0
    /\ boards = <<>>
    /\ comments = NoComments

AddVote(user, vote_type) ==
    LET r == Feedback_add_vote(feedback, board, user, vote_type) IN
    /\ feedback' = r.f
    /\ ret' = Returned("add_vote", user, vote_type, r.result, feedback)
    /\ UNCHANGED <<invitation, now, boards, comments, role, board, history, status_log, calls>>

RemoveVote(user) ==
    /\ feedback' = Feedback_remove_vote(feedback, user)
    /\ ret' = Returned("remove_vote", user, "", TRUE, feedback)
    /\ UNCHANGED <<invitation, now, boards, comments, role, board, history, status_log, calls>>

NextVote ==
    \/ \E user \in Requesters, vote_type \in VoteTypes : AddVote(user, vote_type)
    \/ \E user \in Users : RemoveVote(user)

SpecVote == InitVote /\ [][NextVote]_vars

\* ================================================== votes, step by step
\* The same two methods with every statement that touches the store a step
\* of its own: add_vote is can_vote, then add to one relation, then remove
\* from the other; remove_vote is two removes.  Up to NumCalls calls are in
\* flight at once (no transaction or lock is taken by the code).
InFlight(pc, user, vote_type) == [pc |-> pc, user |-> user, vote_type |-> vote_type]

AddVoteCheck(c, user, vote_type) ==
    /\ calls[c].pc = "idle"
    /\ IF Feedback_can_vote(feedback, board, user) /\ vote_type \in VoteChoices
       THEN /\ calls' = [calls EXCEPT ![c] = InFlight("add", user, vote_type)]
            /\ UNCHANGED ret
       ELSE /\ ret' = Returned("add_vote", user, vote_type, FALSE, NewFeedback)
            /\ UNCHANGED calls
    /\ UNCHANGED <<invitation, now, boards, comments, role, board, feedback, history, status_log>>

AddVoteAdd(c) ==
    /\ calls[c].pc = "add"
    /\ feedback' = IF calls[c].vote_type = "upvote"
                   THEN [feedback EXCEPT !.upvotes = M2MAdd(@, calls[c].user)]
                   ELSE [feedback EXCEPT !.downvotes = M2MAdd(@, calls[c].user)]
    /\ calls' = [calls EXCEPT ![c].pc = "remove"]
    /\ UNCHANGED <<invitation, now, boards, comments, role, board, history, status_log, ret>>

AddVoteRemove(c) ==
    /\ calls[c].pc = "remove"
    /\ feedback' = IF calls[c].vote_type = "upvote"
                   THEN [feedback EXCEPT !.downvotes = M2MRemove(@, calls[c].user)]
                   ELSE [feedback EXCEPT !.upvotes = M2MRemove(@, calls[c].user)]
    /\ calls' = [calls EXCEPT ![c] = Idle]
    /\ ret' = Returned("add_vote", calls[c].user, calls[c].vote_type, TRUE, NewFeedback)
    /\ UNCHANGED <<invitation, now, boards, comments, role, board, history, status_log>>

RemoveVoteUp(c, user) ==
    /\ calls[c].pc = "idle"
    /\ feedback' = [feedback EXCEPT !.upvotes = M2MRemove(@, user)]
    /\ calls' = [calls EXCEPT ![c] = InFlight("rm_down", user, "")]
    /\ UNCHANGED <<invitation, now, boards, comments, role, board, history, status_log, ret>>

RemoveVoteDown(c) ==
    /\ calls[c].pc = "rm_down"
    /\ feedback' = [feedback EXCEPT !.downvotes = M2MRemove(@, calls[c].user)]
    /\ calls' = [calls EXCEPT ![c] = Idle]
    /\ ret' = Returned("remove_vote", calls[c].user, "", TRUE, NewFeedback)
    /\ UNCHANGED <<invitation, now, boards, comments, role, board, history, status_log>>

NextVoteSteps ==
    \/ \E c \in Calls, user \in Requesters, vote_type \in VoteTypes :
          AddVoteCheck(c, user, vote_type)
    \/ \E c \in Calls : AddVoteAdd(c)
    \/ \E c \in Calls : AddVoteRemove(c)
    \/ \E c \in Calls, user \in Users : RemoveVoteUp(c, user)
    \/ \E c \in Calls : RemoveVoteDown(c)

SpecVoteSteps == InitVote /\ [][NextVoteSteps]_vars

\* ============================================= status, request by request
\* The set-status endpoint, the update endpoint and the admin actions on the
\* Feedback, each request one step; save() runs its pre_save and post_save
\* receivers inside the step.
StatusInputs == Status \cup {"other"}    \* "other": any string outside Status.choices

HistoryRow(old, new, by) == [old_status |-> old, new_status |-> new, changed_by |-> by]

\* pre_save receiver: compares the row in the store with the instance about
\* to be written and leaves _status_changed / _old_status on the instance
\* the receiver without the comparison of old and new status
track_feedback_status_changes_Always(stored, instance) ==
    [status_changed |-> TRUE, old_status |-> stored.status]

track_feedback_status_changes(stored, instance) ==
    IF stored.status # instance.status
    THEN [status_changed |-> TRUE, old_status |-> stored.status]
    ELSE [status_changed |-> FALSE, old_status |-> "None"]

\* post_save receiver: the history rows after it ran
create_status_history_record(hist, instance, flags) ==
    IF flags.status_changed
    THEN Append(hist, HistoryRow(flags.old_status, instance.status, instance.assigned_to))
    ELSE hist

\* the UPDATE of the Feedback row: every column of the instance is written,
\* the vote relations are separate tables and stay as stored
WriteRow(stored, instance) ==
    [instance EXCEPT !.upvotes = stored.upvotes, !.downvotes = stored.downvotes]

LogChange(log, old, new) == IF old # new THEN Append(log, <<old, new>>) ELSE log

\* Model.save() of a Feedback instance: pre_save, UPDATE, post_save
save(instance) ==
    LET flags == track_feedback_status_changes(feedback, instance) IN
    /\ feedback' = WriteRow(feedback, instance)
    /\ status_log' = LogChange(status_log, feedback.status, instance.status)
    /\ history' = create_status_history_record(history, instance, flags)

\* QuerySet.update(status=...): one UPDATE statement, no save(), no signals
queryset_update_status(status) ==
    /\ Len(status_log) < MaxChanges \/ status = feedback.status
    /\ feedback' = [feedback EXCEPT !.status = status]
    /\ status_log' = LogChange(status_log, feedback.status, status)
    /\ UNCHANGED <<invitation, now, boards, comments, role, board, history, calls>>

AdminCall(action) == Returned(action, Anon, "", HTTP_200_OK, feedback)

\* get_object() of FeedbackViewSet for the actions guarded by
\* IsFeedbackOwnerOrModerator: the queryset holds active Feedback only, then
\* the object permission is checked
\* get_object() without the object permission
get_object_NoPermission(user) ==
    IF ~feedback.is_active THEN HTTP_404_NOT_FOUND
    ELSE HTTP_200_OK

get_object(user) ==
    IF ~feedback.is_active THEN HTTP_404_NOT_FOUND
    ELSE IF ~Feedback_can_edit(feedback, board, user) THEN HTTP_403_FORBIDDEN
    ELSE HTTP_200_OK

Refuse(op, user, arg, code) ==
    /\ ret' = Returned(op, user, arg, code, feedback)
    /\ UNCHANGED <<invitation, now, boards, comments, role, board, feedback, history, status_log, calls>>

set_status(user, status) ==
    /\ Len(status_log) < MaxChanges \/ status = feedback.status
    /\ IF get_object(user) # HTTP_200_OK
       THEN Refuse("set_status", user, status, get_object(user))
       ELSE IF status \notin Status
       THEN Refuse("set_status", user, status, HTTP_400_BAD_REQUEST)
       ELSE /\ save([feedback EXCEPT !.status = status])
            /\ ret' = Returned("set_status", user, status, HTTP_200_OK, feedback)
            /\ UNCHANGED <<invitation, now, boards, comments, role, board, calls>>

\* the fields submitted are status and is_active; the others are sent back
\* as they were read
update(user, status, active) ==
    /\ Len(status_log) < MaxChanges \/ status = feedback.status
    /\ IF get_object(user) # HTTP_200_OK
       THEN Refuse("update", user, status, get_object(user))
       ELSE /\ save([feedback EXCEPT !.status = status, !.is_active = active])
            /\ ret' = Returned("update", user, status, HTTP_200_OK, feedback)
            /\ UNCHANGED <<invitation, now, boards, comments, role, board, calls>>

approve_feedback ==
    /\ queryset_update_status("pending")
    /\ ret' = AdminCall("approve_feedback")

mark_under_review ==
    /\ queryset_update_status("under_review")
    /\ ret' = AdminCall("mark_under_review")

mark_planned ==
    /\ queryset_update_status("planned")
    /\ ret' = AdminCall("mark_planned")

mark_in_progress ==
    /\ queryset_update_status("in_progress")
    /\ ret' = AdminCall("mark_in_progress")

mark_completed ==
    /\ queryset_update_status("completed")
    /\ ret' = AdminCall("mark_completed")

mark_declined ==
    /\ queryset_update_status("declined")
    /\ ret' = AdminCall("mark_declined")

activate_feedback ==
    /\ feedback' = [feedback EXCEPT !.is_active = TRUE]
    /\ ret' = AdminCall("activate_feedback")
    /\ UNCHANGED <<invitation, now, boards, comments, role, board, history, status_log, calls>>

deactivate_feedback ==
    /\ feedback' = [feedback EXCEPT !.is_active = FALSE]
    /\ ret' = AdminCall("deactivate_feedback")
    /\ UNCHANGED <<invitation, now, boards, comments, role, board, history, status_log, calls>>

InitStatus ==
    /\ role = [u \in Users |-> DefaultRole(u)]
    /\ board = NewBoard
    /\ \E status \in Status, author \in {2, Anon} :
          feedback = [NewFeedback EXCEPT !.author = author, !.status = status]
    /\ history = <<>>
    /\ status_log = <<>>
    /\ calls = [c \in Calls |-> Idle]
    /\ ret = NoCall
    /\ invitation = NewInvitation
    /\ now = 0
    /\ boards = <<>>
    /\ comments = NoComments

NextStatus ==
    \/ \E user \in Requesters, status \in StatusInputs : set_status(user, status)
    \/ \E user \in Requesters, status \in Status, active \in BOOLEAN :
          update(user, status, active)
    \/ approve_feedback
    \/ mark_under_review
    \/ mark_planned
    \/ mark_in_progress
    \/ mark_completed
    \/ mark_declined
    \/ activate_feedback
    \/ deactivate_feedback

SpecStatus == InitStatus /\ [][NextStatus]_vars

\* ================================================ status, step by step
\* NumCalls set-status requests, each issued once, with every statement that
\* touches the store a step of its own: get_object() loads the row, the
\* pre_save receiver reads the stored row again, save() writes the row, the
\* post_save receiver inserts the history row.  The code opens no
\* transaction and takes no lock around them.
Saving(pc, user, instance, flags) ==
    [pc |-> pc, user |-> user, instance |-> instance, flags |-> flags]

NoFlags == [status_changed |-> FALSE, old_status |-> "None"]

Done == [pc |-> "done"]

SetStatusLoad(c, user, status) ==
    /\ calls[c].pc = "idle"
    /\ IF get_object(user) # HTTP_200_OK
       THEN /\ ret' = Returned("set_status", user, status, get_object(user), feedback)
            /\ calls' = [calls EXCEPT ![c] = Done]
       ELSE IF status \notin Status
       THEN /\ ret' = Returned("set_status", user, status, HTTP_400_BAD_REQUEST, feedback)
            /\ calls' = [calls EXCEPT ![c] = Done]
       ELSE /\ calls' = [calls EXCEPT ![c] =
                  Saving("pre_save", user, [feedback EXCEPT !.status = status], NoFlags)]
            /\ UNCHANGED ret
    /\ UNCHANGED <<invitation, now, boards, comments, role, board, feedback, history, status_log>>

SetStatusPreSave(c) ==
    /\ calls[c].pc = "pre_save"
    /\ calls' = [calls EXCEPT ![c].pc = "write",
                              ![c].flags = track_feedback_status_changes(feedback, calls[c].instance)]
    /\ UNCHANGED <<invitation, now, boards, comments, role, board, feedback, history, status_log, ret>>

SetStatusWrite(c) ==
    /\ calls[c].pc = "write"
    /\ feedback' = WriteRow(feedback, calls[c].instance)
    /\ status_log' = LogChange(status_log, feedback.status, calls[c].instance.status)
    /\ calls' = [calls EXCEPT ![c].pc = "post_save"]
    /\ UNCHANGED <<invitation, now, boards, comments, role, board, history, ret>>

SetStatusPostSave(c) ==
    /\ calls[c].pc = "post_save"
    /\ history' = create_status_history_record(history, calls[c].instance, calls[c].flags)
    /\ calls' = [calls EXCEPT ![c] = Done]
    /\ ret' = Returned("set_status", calls[c].user, calls[c].instance.status, HTTP_200_OK,
                       calls[c].instance)
    /\ UNCHANGED <<invitation, now, boards, comments, role, board, feedback, status_log>>

NextStatusSteps ==
    \/ \E c \in Calls, user \in Requesters, status \in StatusInputs :
          SetStatusLoad(c, user, status)
    \/ \E c \in Calls : SetStatusPreSave(c)
    \/ \E c \in Calls : SetStatusWrite(c)
    \/ \E c \in Calls : SetStatusPostSave(c)
    \/ activate_feedback
    \/ deactivate_feedback

SpecStatusSteps == InitStatus /\ [][NextStatusSteps]_vars

\* ========================================================= board access
\* The Board's visibility, activity and member / moderator relations change
\* under the admin actions and the board membership endpoints; every role
\* assignment of the users is an initial state.
BoardCall(op, user) == Returned(op, user, "", HTTP_200_OK, feedback)

activate_boards ==
    /\ board' = [board EXCEPT !.is_active = TRUE]
    /\ ret' = BoardCall("activate_boards", Anon)
    /\ UNCHANGED <<invitation, now, boards, comments, role, feedback, history, status_log, calls>>

deactivate_boards ==
    /\ board' = [board EXCEPT !.is_active = FALSE]
    /\ ret' = BoardCall("deactivate_boards", Anon)
    /\ UNCHANGED <<invitation, now, boards, comments, role, feedback, history, status_log, calls>>

make_public ==
    /\ board' = [board EXCEPT !.visibility = "public"]
    /\ ret' = BoardCall("make_public", Anon)
    /\ UNCHANGED <<invitation, now, boards, comments, role, feedback, history, status_log, calls>>

make_private ==
    /\ board' = [board EXCEPT !.visibility = "private"]
    /\ ret' = BoardCall("make_private", Anon)
    /\ UNCHANGED <<invitation, now, boards, comments, role, feedback, history, status_log, calls>>

\* POST /boards/{id}/add-member/ {user_id} and its three siblings
add_member(user) ==
    /\ board' = [board EXCEPT !.members = M2MAdd(@, user)]
    /\ ret' = BoardCall("add_member", user)
    /\ UNCHANGED <<invitation, now, boards, comments, role, feedback, history, status_log, calls>>

remove_member(user) ==
    /\ board' = [board EXCEPT !.members = M2MRemove(@, user)]
    /\ ret' = BoardCall("remove_member", user)
    /\ UNCHANGED <<invitation, now, boards, comments, role, feedback, history, status_log, calls>>

add_moderator(user) ==
    /\ board' = [board EXCEPT !.moderators = M2MAdd(@, user)]
    /\ ret' = BoardCall("add_moderator", user)
    /\ UNCHANGED <<invitation, now, boards, comments, role, feedback, history, status_log, calls>>

remove_moderator(user) ==
    /\ board' = [board EXCEPT !.moderators = M2MRemove(@, user)]
    /\ ret' = BoardCall("remove_moderator", user)
    /\ UNCHANGED <<invitation, now, boards, comments, role, feedback, history, status_log, calls>>

InitBoard ==
    /\ role \in [Users -> Roles]
    /\ board = NewBoard
    /\ feedback = NewFeedback
    /\ history = <<>>
    /\ status_log = <<>>
    /\ calls = [c \in Calls |-> Idle]
    /\ ret = NoCall
    /\ invitation = NewInvitation
    /\ now = 0
    /\ boards = <<>>
    /\ comments = NoComments

NextBoard ==
    \/ activate_boards
    \/ deactivate_boards
    \/ make_public
    \/ make_private
    \/ \E user \in Users : add_member(user)
    \/ \E user \in Users : remove_member(user)
    \/ \E user \in Users : add_moderator(user)
    \/ \E user \in Users : remove_moderator(user)

SpecBoard == InitBoard /\ [][NextBoard]_vars

\* ================================================= edit / delete permission
\* Feedback.can_edit and Feedback.can_delete asked for a user, over every
\* assignment of roles, every board owner and moderator set, and every
\* author of the Feedback (Anon: the Feedback is anonymous).
PermissionCall(op, user, result) == Returned(op, user, "", result, feedback)

CanEdit(user) ==
    /\ ret' = PermissionCall("can_edit", user, Feedback_can_edit(feedback, board, user))
    /\ UNCHANGED <<invitation, now, boards, comments, role, board, feedback,
                   history, status_log, calls>>

CanDelete(user) ==
    /\ ret' = PermissionCall("can_delete", user, Feedback_can_delete(feedback, board, user))
    /\ UNCHANGED <<invitation, now, boards, comments, role, board, feedback,
                   history, status_log, calls>>

InitEdit ==
    /\ role \in [Users -> Roles]
    /\ \E owner \in Users, moderators \in SUBSET Users :
          board = [NewBoard EXCEPT !.owner = owner, !.moderators = moderators]
    /\ \E author \in Requesters : feedback = [NewFeedback EXCEPT !.author = author]
    /\ history = <<>>
    /\ status_log = <<>>
    /\ calls = [c \in Calls |-> Idle]
    /\ ret = NoCall
    /\ invitation = NewInvitation
    /\ now = 0
    /\ boards = <<>>
    /\ comments = NoComments

NextEdit ==
    \/ \E user \in Requesters : CanEdit(user)
    \/ \E user \in Requesters : CanDelete(user)

SpecEdit == InitEdit /\ [][NextEdit]_vars

\* ===================================================== the vote endpoints
\* POST /feedback/{id}/vote/ and /remove-vote/, each request one step, on a
\* Board of any visibility, activity and member set.
\* IsAuthenticated is checked first, then get_object() looks the Feedback up
\* among the active ones
get_object_IsAuthenticated(user) ==
    IF ~is_authenticated(user) THEN HTTP_403_FORBIDDEN
    ELSE IF ~feedback.is_active THEN HTTP_404_NOT_FOUND
    ELSE HTTP_200_OK

vote(user, vote_type) ==
    LET r == Feedback_add_vote(feedback, board, user, vote_type) IN
    IF get_object_IsAuthenticated(user) # HTTP_200_OK
    THEN Refuse("vote", user, vote_type, get_object_IsAuthenticated(user))
    ELSE IF vote_type \notin VoteChoices
    THEN Refuse("vote", user, vote_type, HTTP_400_BAD_REQUEST)
    ELSE IF ~r.result
    THEN Refuse("vote", user, vote_type, HTTP_403_FORBIDDEN)
    ELSE /\ feedback' = r.f
         /\ ret' = Returned("vote", user, vote_type, HTTP_200_OK, feedback)
         /\ UNCHANGED <<invitation, now, boards, comments, role, board,
                        history, status_log, calls>>

remove_vote(user) ==
    IF get_object_IsAuthenticated(user) # HTTP_200_OK
    THEN Refuse("remove_vote", user, "", get_object_IsAuthenticated(user))
    ELSE /\ feedback' = Feedback_remove_vote(feedback, user)
         /\ ret' = Returned("remove_vote", user, "", HTTP_200_OK, feedback)
         /\ UNCHANGED <<invitation, now, boards, comments, role, board,
                        history, status_log, calls>>

InitVoteAccess ==
    /\ role = [u \in Users |-> DefaultRole(u)]
    /\ \E ia \in BOOLEAN, visibility \in Visibility, members \in SUBSET Users,
          av \in BOOLEAN :
          board = [NewBoard EXCEPT !.is_active = ia, !.visibility = visibility,
                                   !.members = members, !.allow_voting = av]
    /\ \E ia \in BOOLEAN, up \in SUBSET Users, down \in SUBSET Users :
          /\ up \cap down = {}
          /\ feedback = [NewFeedback EXCEPT !.is_active = ia,
                                            !.upvotes = up, !.downvotes = down]
    /\ history = <<>>
    /\ status_log = <<>>
    /\ calls = [c \in Calls |-> Idle]
    /\ ret = NoCall
    /\ invitation = NewInvitation
    /\ now = 0
    /\ boards = <<>>
    /\ comments = NoComments

NextVoteAccess ==
    \/ \E user \in Requesters, vote_type \in VoteTypes : vote(user, vote_type)
    \/ \E user \in Requesters : remove_vote(user)

SpecVoteAccess == InitVoteAccess /\ [][NextVoteAccess]_vars

\* ============================================================ invitations
\* One BoardInvitation to the Board, of either role and any expiry time,
\* under accept, decline and the admin action expire_invitations, while the
\* clock advances between the calls.
\* pre, board and at are the invitation, the Board and the time as the call
\* found them
InvitationCall(op, user, result) ==
    [op |-> op, user |-> user, arg |-> "", result |-> result,
     pre |-> invitation, board |-> board, at |-> now]

accept(user) ==
    LET r == BoardInvitation_accept(invitation, board, user, now) IN
    /\ invitation' = r.inv
    /\ board' = r.b
    /\ ret' = InvitationCall("accept", user, r.result)
    /\ UNCHANGED <<now, boards, comments, role, feedback, history, status_log, calls>>

decline(user) ==
    LET r == BoardInvitation_decline(invitation, board, user, now) IN
    /\ invitation' = r.inv
    /\ board' = r.b
    /\ ret' = InvitationCall("decline", user, r.result)
    /\ UNCHANGED <<now, boards, comments, role, feedback, history, status_log, calls>>

\* queryset.update(status=EXPIRED) on the selected invitations
expire_invitations ==
    /\ invitation' = [invitation EXCEPT !.status = "expired"]
    /\ ret' = InvitationCall("expire_invitations", Anon, TRUE)
    /\ UNCHANGED <<now, boards, comments, role, board, feedback, history,
                   status_log, calls>>

Tick ==
    /\ now < MaxTime
    /\ now' = now + 1
    /\ UNCHANGED <<invitation, boards, comments, role, board, feedback, history,
                   status_log, calls, ret>>

InitInvitation ==
    /\ role = [u \in Users |-> DefaultRole(u)]
    /\ board = NewBoard
    /\ feedback = NewFeedback
    /\ history = <<>>
    /\ status_log = <<>>
    /\ calls = [c \in Calls |-> Idle]
    /\ ret = NoCall
    /\ \E r \in InvitationRoles, expires_at \in Times :
          invitation = [NewInvitation EXCEPT !.role = r, !.expires_at = expires_at]
    /\ now = 0
    /\ boards = <<>>
    /\ comments = NoComments

NextInvitation ==
    \/ \E user \in Users : accept(user)
    \/ \E user \in Users : decline(user)
    \/ expire_invitations
    \/ Tick

SpecInvitation == InitInvitation /\ [][NextInvitation]_vars

\* ================================================== the history records
\* The requests and admin actions on the Feedback, as above, together with
\* the admin site of FeedbackStatusHistory: FeedbackStatusHistoryAdmin
\* turns off add and change and leaves delete, so the site's delete_selected
\* action is offered on the records.  The Feedback itself is never deleted
\* here.
RemoveAt(seq, i) == SubSeq(seq, 1, i - 1) \o SubSeq(seq, i + 1, Len(seq))

delete_selected(i) ==
    /\ i \in 1..Len(history)
    /\ history' = RemoveAt(history, i)
    /\ ret' = AdminCall("delete_selected")
    /\ UNCHANGED <<invitation, now, boards, comments, role, board, feedback,
                   status_log, calls>>

NextHistory ==
    \/ \E user \in Requesters, status \in StatusInputs : set_status(user, status)
    \/ \E user \in Requesters, status \in Status, active \in BOOLEAN :
          update(user, status, active)
    \/ approve_feedback
    \/ mark_under_review
    \/ mark_planned
    \/ mark_in_progress
    \/ mark_completed
    \/ mark_declined
    \/ activate_feedback
    \/ deactivate_feedback
    \/ \E i \in 1..MaxChanges : delete_selected(i)

SpecHistory == InitStatus /\ [][NextHistory]_vars

\* ============================================================ board slugs
\* Board rows created one after another, with and without a slug.  A name
\* or slug is the sequence of its characters; "A" stands for an upper-case
\* letter, "a" for a lower-case one, "1" for a digit, "!" for a character
\* that is none of letter, digit, underscore, whitespace or hyphen.
BoardNames == { <<"A">>, <<"a">>, <<"A", " ", "1">>, <<"!">>,
                <<" ", "a", "!", "-", " ">> }

\* the slug handed to the constructor; <<>> is no slug
GivenSlugs == { <<>>, <<"a">>, <<"a", "-", "1">> }

lower(c) == IF c = "A" THEN "a" ELSE c

IsWord(c) == c \in {"a", "A", "1"}

IsSpaceOrHyphen(c) == c \in {" ", "-"}

KeptBySlugify(c) == IsWord(c) \/ IsSpaceOrHyphen(c)

\* re.sub(r'[-\s]+', '-', value): every run of hyphens and whitespace
\* becomes one hyphen
RECURSIVE CollapseRuns(_)
CollapseRuns(value) ==
    IF value = <<>> THEN <<>>
    ELSE LET rest == CollapseRuns(Tail(value)) IN
         IF IsSpaceOrHyphen(Head(value))
         THEN IF rest # <<>> /\ Head(rest) = "-" THEN rest ELSE <<"-">> \o rest
         ELSE <<Head(value)>> \o rest

\* str.strip('-_')
RECURSIVE Strip(_)
Strip(value) ==
    IF value = <<>> THEN <<>>
    ELSE IF Head(value) = "-" THEN Strip(Tail(value))
    ELSE IF value[Len(value)] = "-" THEN Strip(SubSeq(value, 1, Len(value) - 1))
    ELSE value

\* django.utils.text.slugify: lower-case, drop what is not a word
\* character, whitespace or hyphen, collapse the runs, strip
slugify(name) ==
    Strip(CollapseRuns(SelectSeq([i \in 1..Len(name) |-> lower(name[i])], KeptBySlugify)))

\* f"{base_slug}-{counter}"
Suffixed(base_slug, counter) == base_slug \o <<"-", ToString(counter)>>

\* Board.objects.filter(slug=slug).exclude(pk=instance.pk).exists(), rows
\* being the other boards
SlugExists(rows, slug) == \E i \in 1..Len(rows) : rows[i].slug = slug

\* the while loop of update_board_slug
RECURSIVE UniqueSlug(_, _, _, _)
UniqueSlug(rows, base_slug, slug, counter) ==
    IF SlugExists(rows, slug)
    THEN UniqueSlug(rows, base_slug, Suffixed(base_slug, counter), counter + 1)
    ELSE slug

\* post_save receiver of a created Board: the row as it leaves it
update_board_slug(rows, instance) ==
    IF instance.slug = <<>>
    THEN LET base_slug == slugify(instance.name) IN
         [instance EXCEPT !.slug = UniqueSlug(rows, base_slug, base_slug, 1)]
    ELSE instance

SlugCall(name, slug, result) ==
    [op |-> "create", user |-> Anon, name |-> name, arg |-> slug, result |-> result,
     pre |-> boards]

\* Board.objects.create(name=..., slug=...): the INSERT, refused by the
\* unique index on slug when a row holds the slug being inserted, then the
\* post_save receiver
BoardCreate(name, slug) ==
    /\ Len(boards) < MaxBoards
    /\ IF SlugExists(boards, slug)
       THEN /\ ret' = SlugCall(name, slug, "IntegrityError")
            /\ UNCHANGED boards
       ELSE /\ boards' = Append(boards, update_board_slug(boards, [name |-> name, slug |-> slug]))
            /\ ret' = SlugCall(name, slug, "created")
    /\ UNCHANGED <<invitation, now, comments, role, board, feedback, history,
                   status_log, calls>>

InitSlug ==
    /\ role = [u \in Users |-> DefaultRole(u)]
    /\ board = NewBoard
    /\ feedback = NewFeedback
    /\ history = <<>>
    /\ status_log = <<>>
    /\ calls = [c \in Calls |-> Idle]
    /\ ret = NoCall
    /\ invitation = NewInvitation
    /\ now = 0
    /\ boards = <<>>
    /\ comments = NoComments

NextSlug == \E name \in BoardNames, slug \in GivenSlugs : BoardCreate(name, slug)

SpecSlug == InitSlug /\ [][NextSlug]_vars

\* ========================================================== comment votes
\* POST /comments/{id}/vote/ and /remove-vote/, each request one step, with
\* the admin actions that switch a Comment's is_active.
CommentCall(op, pk, user, arg, result) ==
    [op |-> op, pk |-> pk, user |-> user, arg |-> arg, result |-> result,
     pre |-> comments[pk], all |-> comments]

\* IsAuthenticated is checked first, then get_object() of CommentViewSet
\* looks the Comment up among the active ones
Comment_get_object_IsAuthenticated(pk, user) ==
    IF ~is_authenticated(user) THEN HTTP_403_FORBIDDEN
    ELSE IF ~(comments[pk].exists /\ comments[pk].is_active) THEN HTTP_404_NOT_FOUND
    ELSE HTTP_200_OK

CommentRefuse(op, pk, user, arg, code) ==
    /\ ret' = CommentCall(op, pk, user, arg, code)
    /\ UNCHANGED <<invitation, now, boards, comments, role, board, feedback,
                   history, status_log, calls>>

comment_vote(pk, user, vote_type) ==
    IF Comment_get_object_IsAuthenticated(pk, user) # HTTP_200_OK
    THEN CommentRefuse("comment_vote", pk, user, vote_type,
                       Comment_get_object_IsAuthenticated(pk, user))
    ELSE IF vote_type \notin VoteChoices
    THEN CommentRefuse("comment_vote", pk, user, vote_type, HTTP_400_BAD_REQUEST)
    ELSE IF ~Comment_can_vote(comments[pk], board, user)
    THEN CommentRefuse("comment_vote", pk, user, vote_type, HTTP_403_FORBIDDEN)
    ELSE /\ comments' =
               IF vote_type = "upvote"
               THEN [comments EXCEPT ![pk].upvotes = M2MAdd(@, user),
                                     ![pk].downvotes = M2MRemove(@, user)]
               ELSE [comments EXCEPT ![pk].downvotes = M2MAdd(@, user),
                                     ![pk].upvotes = M2MRemove(@, user)]
         /\ ret' = CommentCall("comment_vote", pk, user, vote_type, HTTP_200_OK)
         /\ UNCHANGED <<invitation, now, boards, role, board, feedback,
                        history, status_log, calls>>

comment_remove_vote(pk, user) ==
    IF Comment_get_object_IsAuthenticated(pk, user) # HTTP_200_OK
    THEN CommentRefuse("comment_remove_vote", pk, user, "",
                       Comment_get_object_IsAuthenticated(pk, user))
    ELSE /\ comments' = [comments EXCEPT ![pk].upvotes = M2MRemove(@, user),
                                         ![pk].downvotes = M2MRemove(@, user)]
         /\ ret' = CommentCall("comment_remove_vote", pk, user, "", HTTP_200_OK)
         /\ UNCHANGED <<invitation, now, boards, role, board, feedback,
                        history, status_log, calls>>

\* queryset.update(is_active=...) on the selected Comment
activate_comments(pk) ==
    /\ comments[pk].exists
    /\ comments' = [comments EXCEPT ![pk].is_active = TRUE]
    /\ ret' = CommentCall("activate_comments", pk, Anon, "", HTTP_200_OK)
    /\ UNCHANGED <<invitation, now, boards, role, board, feedback,
                   history, status_log, calls>>

deactivate_comments(pk) ==
    /\ comments[pk].exists
    /\ comments' = [comments EXCEPT ![pk].is_active = FALSE]
    /\ ret' = CommentCall("deactivate_comments", pk, Anon, "", HTTP_200_OK)
    /\ UNCHANGED <<invitation, now, boards, role, board, feedback,
                   history, status_log, calls>>

\* one Comment, pk 1, with any disjoint votes; the other pks have no row
InitCommentVote ==
    /\ role = [u \in Users |-> DefaultRole(u)]
    /\ \E av \in BOOLEAN : board = [NewBoard EXCEPT !.allow_voting = av]
    /\ feedback = NewFeedback
    /\ history = <<>>
    /\ status_log = <<>>
    /\ calls = [c \in Calls |-> Idle]
    /\ ret = NoCall
    /\ invitation = NewInvitation
    /\ now = 0
    /\ boards = <<>>
    /\ \E up \in SUBSET Users, down \in SUBSET Users :
          /\ up \cap down = {}
          /\ comments = [NoComments EXCEPT ![1] =
                            [NewComment EXCEPT !.upvotes = up, !.downvotes = down]]

NextCommentVote ==
    \/ \E pk \in CommentIds, user \in Requesters, vote_type \in VoteTypes :
          comment_vote(pk, user, vote_type)
    \/ \E pk \in CommentIds, user \in Requesters : comment_remove_vote(pk, user)
    \/ \E pk \in CommentIds : activate_comments(pk)
    \/ \E pk \in CommentIds : deactivate_comments(pk)

SpecCommentVote == InitCommentVote /\ [][NextCommentVote]_vars

\* ========================================================= comment threads
\* POST /comments/ and PUT or PATCH /comments/{id}/ with the writable field
\* parent, each request one step.  CommentSerializer takes for parent any
\* existing Comment or null.
ParentInputs == CommentIds \cup {Null}

\* PrimaryKeyRelatedField(queryset=Comment.objects.all(), allow_null=True)
ParentIsValid(parent) == parent = Null \/ comments[parent].exists

\* get_object() looking the Comment up among all Comments, inactive ones too
Comment_get_object_AllComments(pk, user) ==
    IF ~comments[pk].exists THEN HTTP_404_NOT_FOUND
    ELSE IF ~Comment_can_edit(comments[pk], board, user) THEN HTTP_403_FORBIDDEN
    ELSE HTTP_200_OK

\* the requests guarded by IsCommentOwnerOrModerator: lookup among the
\* active Comments, then the object permission
Comment_get_object(pk, user) ==
    IF ~(comments[pk].exists /\ comments[pk].is_active) THEN HTTP_404_NOT_FOUND
    ELSE IF ~Comment_can_edit(comments[pk], board, user) THEN HTTP_403_FORBIDDEN
    ELSE HTTP_200_OK

\* the pk of the row being inserted
NewPk == CHOOSE pk \in CommentIds : ~comments[pk].exists

comment_create(user, parent) ==
    /\ \E pk \in CommentIds : ~comments[pk].exists
    /\ IF ~is_authenticated(user)
       THEN CommentRefuse("comment_create", NewPk, user, parent, HTTP_403_FORBIDDEN)
       ELSE IF ~ParentIsValid(parent)
       THEN CommentRefuse("comment_create", NewPk, user, parent, HTTP_400_BAD_REQUEST)
       ELSE /\ comments' = [comments EXCEPT ![NewPk] =
                               [NewComment EXCEPT !.author = user, !.parent = parent]]
            /\ ret' = CommentCall("comment_create", NewPk, user, parent, HTTP_201_CREATED)
            /\ UNCHANGED <<invitation, now, boards, role, board, feedback,
                           history, status_log, calls>>

comment_update(pk, user, parent) ==
    IF Comment_get_object(pk, user) # HTTP_200_OK
    THEN CommentRefuse("comment_update", pk, user, parent, Comment_get_object(pk, user))
    ELSE IF ~ParentIsValid(parent)
    THEN CommentRefuse("comment_update", pk, user, parent, HTTP_400_BAD_REQUEST)
    ELSE /\ comments' = [comments EXCEPT ![pk].parent = parent]
         /\ ret' = CommentCall("comment_update", pk, user, parent, HTTP_200_OK)
         /\ UNCHANGED <<invitation, now, boards, role, board, feedback,
                        history, status_log, calls>>

InitCommentTree ==
    /\ role = [u \in Users |-> DefaultRole(u)]
    /\ board = NewBoard
    /\ feedback = NewFeedback
    /\ history = <<>>
    /\ status_log = <<>>
    /\ calls = [c \in Calls |-> Idle]
    /\ ret = NoCall
    /\ invitation = NewInvitation
    /\ now = 0
    /\ boards = <<>>
    /\ comments = NoComments

NextCommentTree ==
    \/ \E user \in Requesters, parent \in ParentInputs : comment_create(user, parent)
    \/ \E pk \in CommentIds, user \in Requesters, parent \in ParentInputs :
          comment_update(pk, user, parent)

SpecCommentTree == InitCommentTree /\ [][NextCommentTree]_vars

\* ==================================================== threads of comments
\* DELETE /comments/{id}/ and the reads of reply_count and is_reply, on
\* every table of up to MaxThread Comments: any of them inactive, each with
\* no parent or with any Comment of the table as parent (update leaves any
\* such parent in place).
comment_destroy(pk, user) ==
    IF Comment_get_object(pk, user) # HTTP_200_OK
    THEN CommentRefuse("comment_destroy", pk, user, "", Comment_get_object(pk, user))
    ELSE /\ comments' = [c \in DOMAIN comments |->
                            IF c \in Collect(comments, {pk}) THEN NoComment
                            ELSE comments[c]]
         /\ ret' = CommentCall("comment_destroy", pk, user, "", HTTP_204_NO_CONTENT)
         /\ UNCHANGED <<invitation, now, boards, role, board, feedback,
                        history, status_log, calls>>

reply_count(pk) ==
    /\ comments[pk].exists
    /\ ret' = CommentCall("reply_count", pk, Anon, "", Comment_reply_count(comments, pk))
    /\ UNCHANGED <<invitation, now, boards, comments, role, board, feedback,
                   history, status_log, calls>>

is_reply(pk) ==
    /\ comments[pk].exists
    /\ ret' = CommentCall("is_reply", pk, Anon, "", Comment_is_reply(comments, pk))
    /\ UNCHANGED <<invitation, now, boards, comments, role, board, feedback,
                   history, status_log, calls>>

InitThread ==
    /\ role = [u \in Users |-> DefaultRole(u)]
    /\ board = NewBoard
    /\ feedback = NewFeedback
    /\ history = <<>>
    /\ status_log = <<>>
    /\ calls = [c \in Calls |-> Idle]
    /\ ret = NoCall
    /\ invitation = NewInvitation
    /\ now = 0
    /\ boards = <<>>
    /\ \E there \in SUBSET ThreadIds, active \in SUBSET ThreadIds,
          parent \in [ThreadIds -> ThreadIds \cup {Null}] :
          /\ active \subseteq there
          /\ \A c \in ThreadIds : parent[c] = Null \/ (c \in there /\ parent[c] \in there)
          /\ comments = [c \in ThreadIds |->
                            IF c \in there
                            THEN [NewComment EXCEPT !.is_active = c \in active,
                                                    !.parent = parent[c]]
                            ELSE NoComment]

NextThread ==
    \/ \E pk \in ThreadIds, user \in Requesters : comment_destroy(pk, user)
    \/ \E pk \in ThreadIds : reply_count(pk)
    \/ \E pk \in ThreadIds : is_reply(pk)

SpecThread == InitThread /\ [][NextThread]_vars

\* ============================================ role updates, request by request
\* PUT/PATCH on UserRoleUpdateView: requester asks that target's role
\* becomes value.
RoleInputs == Roles \cup {"owner"}

RoleCall(op, user, target, value, result) ==
    [op |-> op, user |-> user, arg |-> [target |-> target, value |-> value],
     result |-> result, pre |-> role]

\* validate_role without the test on the requester's own admin role
validate_role_AllowsSelfDemotion(requester, target, value) ==
    is_admin(requester)

\* UserRoleUpdateSerializer.validate_role: TRUE when no ValidationError is raised
validate_role(requester, target, value) ==
    /\ is_admin(requester)
    /\ ~(target = requester /\ role[target] = "admin" /\ value # "admin")

\* IsAuthenticated, check_object_permissions, the choices of the role field,
\* then validate_role
RoleUpdateResponse(requester, target, value) ==
    IF ~is_authenticated(requester) THEN HTTP_403_FORBIDDEN
    ELSE IF ~is_admin(requester) THEN HTTP_403_FORBIDDEN
    ELSE IF value \notin Roles THEN HTTP_400_BAD_REQUEST
    ELSE IF ~validate_role(requester, target, value) THEN HTTP_400_BAD_REQUEST
    ELSE HTTP_200_OK

role_update(requester, target, value) ==
    /\ ret' = RoleCall("role_update", requester, target, value,
                       RoleUpdateResponse(requester, target, value))
    /\ role' = IF RoleUpdateResponse(requester, target, value) = HTTP_200_OK
               THEN [role EXCEPT ![target] = value]
               ELSE role
    /\ UNCHANGED <<invitation, now, boards, comments, board, feedback,
                   history, status_log, calls>>

InitRole ==
    /\ role \in [Users -> Roles]
    /\ board = NewBoard
    /\ feedback = NewFeedback
    /\ history = <<>>
    /\ status_log = <<>>
    /\ calls = [c \in Calls |-> Idle]
    /\ ret = NoCall
    /\ invitation = NewInvitation
    /\ now = 0
    /\ boards = <<>>
    /\ comments = NoComments

NextRole ==
    \E requester \in Requesters, target \in Users, value \in RoleInputs :
        role_update(requester, target, value)

SpecRole == InitRole /\ [][NextRole]_vars

\* ============================================= role updates, step by step
\* The same request in two steps: the checks on the rows as the request
\* loaded them, then serializer.save() writing the role.
RoleInFlight(requester, target, value) ==
    [pc |-> "save", user |-> requester, target |-> target, value |-> value]

RoleUpdateCheck(c, requester, target, value) ==
    /\ calls[c].pc = "idle"
    /\ IF RoleUpdateResponse(requester, target, value) = HTTP_200_OK
       THEN /\ calls' = [calls EXCEPT ![c] = RoleInFlight(requester, target, value)]
            /\ UNCHANGED ret
       ELSE /\ ret' = RoleCall("role_update", requester, target, value,
                               RoleUpdateResponse(requester, target, value))
            /\ UNCHANGED calls
    /\ UNCHANGED <<invitation, now, boards, comments, role, board, feedback,
                   history, status_log>>

RoleUpdateSave(c) ==
    /\ calls[c].pc = "save"
    /\ role' = [role EXCEPT ![calls[c].target] = calls[c].value]
    /\ ret' = RoleCall("role_update", calls[c].user, calls[c].target,
                       calls[c].value, HTTP_200_OK)
    /\ calls' = [calls EXCEPT ![c] = Idle]
    /\ UNCHANGED <<invitation, now, boards, comments, board, feedback,
                   history, status_log>>

InitRoleSteps ==
    /\ InitRole
    /\ \E u \in Users : role[u] = "admin"

NextRoleSteps ==
    \/ \E c \in Calls, requester \in Requesters, target \in Users, value \in RoleInputs :
          RoleUpdateCheck(c, requester, target, value)
    \/ \E c \in Calls : RoleUpdateSave(c)

SpecRoleSteps == InitRoleSteps /\ [][NextRoleSteps]_vars

\* ======================================================= creating Feedback
\* POST /feedback/ on a table of Feedback: here feedback maps the primary
\* keys in the store to their rows. The store is empty at first, or holds one
\* Feedback whose status was changed once, with the history row of that change.
FeedbackCall(op, pk, user, arg, result) ==
    [op |-> op, pk |-> pk, user |-> user, arg |-> arg, result |-> result,
     rows |-> feedback, hist |-> history]

\* the receiver taking a primary key that is not in the store for a change
\* of status
track_feedback_status_changes_of_NewAsChanged(rows, pk, instance) ==
    IF pk = Null THEN NoFlags
    ELSE IF pk \notin DOMAIN rows THEN [status_changed |-> TRUE, old_status |-> "None"]
    ELSE track_feedback_status_changes(rows[pk], instance)

\* pre_save receiver on the instance with primary key pk: nothing without a
\* pk, nothing when Feedback.objects.get raises DoesNotExist
track_feedback_status_changes_of(rows, pk, instance) ==
    IF pk = Null THEN NoFlags
    ELSE IF pk \notin DOMAIN rows THEN NoFlags
    ELSE track_feedback_status_changes(rows[pk], instance)

\* Model.save() of the instance with primary key pk: pre_save, INSERT or
\* UPDATE, post_save
save_row(pk, instance) ==
    LET flags == track_feedback_status_changes_of(feedback, pk, instance) IN
    /\ feedback' = [k \in DOMAIN feedback \cup {pk} |->
                       IF k # pk THEN feedback[k]
                       ELSE IF pk \in DOMAIN feedback THEN WriteRow(feedback[pk], instance)
                       ELSE instance]
    /\ history' = create_status_history_record(history, instance, flags)

FeedbackRefuse(op, pk, user, arg, code) ==
    /\ ret' = FeedbackCall(op, pk, user, arg, code)
    /\ UNCHANGED <<invitation, now, boards, comments, role, board, feedback,
                   history, status_log, calls>>

\* id = UUIDField(default=uuid.uuid4): the instance has a pk, one that no
\* row of the store has, before its first save
create(pk, user, status) ==
    /\ pk \notin DOMAIN feedback
    /\ IF ~is_authenticated(user)
       THEN FeedbackRefuse("create", pk, user, status, HTTP_403_FORBIDDEN)
       ELSE IF status \notin Status
       THEN FeedbackRefuse("create", pk, user, status, HTTP_400_BAD_REQUEST)
       ELSE /\ save_row(pk, [NewFeedback EXCEPT !.status = status, !.author = user])
            /\ ret' = FeedbackCall("create", pk, user, status, HTTP_201_CREATED)
            /\ UNCHANGED <<invitation, now, boards, comments, role, board,
                           status_log, calls>>

InitCreate ==
    /\ role = [u \in Users |-> DefaultRole(u)]
    /\ board = NewBoard
    /\ \/ feedback = <<>> /\ history = <<>>
       \/ \E pk \in FeedbackIds, status \in Status \ {NewFeedback.status} :
             /\ feedback = [k \in {pk} |-> [NewFeedback EXCEPT !.status = status]]
             /\ history = <<HistoryRow(NewFeedback.status, status, Anon)>>
    /\ status_log = <<>>
    /\ calls = [c \in Calls |-> Idle]
    /\ ret = NoCall
    /\ invitation = NewInvitation
    /\ now = 0
    /\ boards = <<>>
    /\ comments = NoComments

NextCreate ==
    \E pk \in FeedbackIds, user \in Requesters, status \in StatusInputs :
        create(pk, user, status)

SpecCreate == InitCreate /\ [][NextCreate]_vars

\* ======================================== add_vote alone, step by step
\* The statements of add_vote interleaved as in the specification above,
\* with no remove_vote call in flight or completed.
NextAddVoteSteps ==
    \/ \E c \in Calls, user \in Requesters, vote_type \in VoteTypes :
          AddVoteCheck(c, user, vote_type)
    \/ \E c \in Calls : AddVoteAdd(c)
    \/ \E c \in Calls : AddVoteRemove(c)

SpecAddVoteSteps == InitVote /\ [][NextAddVoteSteps]_vars

\* ============================================ invitations, step by step
\* accept and decline with the guard, the add to the board's relation and
\* the save of the invitation as separate steps; every call works on its own
\* instance of the invitation and takes no lock. Each call slot serves one
\* call and keeps what it returned.
Responding(pc, op, user) == [pc |-> pc, op |-> op, user |-> user]

Answered(op, user, result) == [pc |-> "done", op |-> op, user |-> user, result |-> result]

AcceptGuard(c, user) ==
    /\ calls[c].pc = "idle"
    /\ IF invitation.status # "pending" \/ is_expired(invitation, now)
       THEN /\ calls' = [calls EXCEPT ![c] = Answered("accept", user, FALSE)]
            /\ ret' = InvitationCall("accept", user, FALSE)
       ELSE /\ calls' = [calls EXCEPT ![c] = Responding("add", "accept", user)]
            /\ UNCHANGED ret
    /\ UNCHANGED <<invitation, now, boards, comments, role, board, feedback,
                   history, status_log>>

AcceptAdd(c) ==
    /\ calls[c].pc = "add"
    /\ board' = IF invitation.role = "moderator"
                THEN [board EXCEPT !.moderators = M2MAdd(@, calls[c].user)]
                ELSE [board EXCEPT !.members = M2MAdd(@, calls[c].user)]
    /\ calls' = [calls EXCEPT ![c].pc = "save"]
    /\ UNCHANGED <<invitation, now, boards, comments, role, feedback, history,
                   status_log, ret>>

DeclineGuard(c, user) ==
    /\ calls[c].pc = "idle"
    /\ IF invitation.status # "pending" \/ is_expired(invitation, now)
       THEN /\ calls' = [calls EXCEPT ![c] = Answered("decline", user, FALSE)]
            /\ ret' = InvitationCall("decline", user, FALSE)
       ELSE /\ calls' = [calls EXCEPT ![c] = Responding("save", "decline", user)]
            /\ UNCHANGED ret
    /\ UNCHANGED <<invitation, now, boards, comments, role, board, feedback,
                   history, status_log>>

\* self.status = ...; self.responded_at = timezone.now(); self.save(); return True
InvitationSave(c) ==
    /\ calls[c].pc = "save"
    /\ invitation' = [invitation EXCEPT
                         !.status = IF calls[c].op = "accept" THEN "accepted" ELSE "declined",
                         !.responded_at = <<now>>]
    /\ calls' = [calls EXCEPT ![c] = Answered(calls[c].op, calls[c].user, TRUE)]
    /\ ret' = InvitationCall(calls[c].op, calls[c].user, TRUE)
    /\ UNCHANGED <<now, boards, comments, role, board, feedback, history, status_log>>

NextInvitationSteps ==
    \/ \E c \in Calls, user \in Users : AcceptGuard(c, user)
    \/ \E c \in Calls : AcceptAdd(c)
    \/ \E c \in Calls, user \in Users : DeclineGuard(c, user)
    \/ \E c \in Calls : InvitationSave(c)
    \/ Tick

SpecInvitationSteps == InitInvitation /\ [][NextInvitationSteps]_vars

\* ================================================= the permission methods
\* Board.can_edit, Board.can_moderate, Board.can_access, Feedback.can_edit
\* and Comment.can_edit answered for one user at a time, on a Board with any
\* owner, moderators, members, visibility and activity, a Feedback and a
\* Comment on it with any author, and any roles of the users.
Permissions(user) ==
    [board_can_edit |-> Board_can_edit(board, user),
     board_can_moderate |-> Board_can_moderate(board, user),
     board_can_access |-> Board_can_access(board, user),
     feedback_can_edit |-> Feedback_can_edit(feedback, board, user),
     comment_can_edit |-> Comment_can_edit(comments[1], board, user)]

permissions(user) ==
    /\ ret' = Returned("permissions", user, "", Permissions(user), feedback)
    /\ UNCHANGED <<invitation, now, boards, comments, role, board, feedback,
                   history, status_log, calls>>

InitPermissions ==
    /\ role \in [Users -> Roles]
    /\ \E owner \in Users, moderators \in SUBSET Users, members \in SUBSET Users,
          visibility \in Visibility, active \in BOOLEAN :
          board = [NewBoard EXCEPT !.owner = owner, !.moderators = moderators,
                                   !.members = members, !.visibility = visibility,
                                   !.is_active = active]
    /\ \E author \in Requesters : feedback = [NewFeedback EXCEPT !.author = author]
    /\ \E author \in Requesters :
          comments = [NoComments EXCEPT ![1] = [NewComment EXCEPT !.author = author]]
    /\ history = <<>>
    /\ status_log = <<>>
    /\ calls = [c \in Calls |-> Idle]
    /\ ret = NoCall
    /\ invitation = NewInvitation
    /\ now = 0
    /\ boards = <<>>

NextPermissions == \E user \in Requesters : permissions(user)

SpecPermissions == InitPermissions /\ [][NextPermissions]_vars

\* ==================================================== comment moderation
\* POST /comments/{id}/moderate/ and PATCH /comments/{id}/ with is_active,
\* next to the two vote endpoints, each request one step, on one Comment
\* with any author and any disjoint votes; no admin action takes part.
moderate(pk, user, active) ==
    IF Comment_get_object(pk, user) # HTTP_200_OK
    THEN CommentRefuse("moderate", pk, user, active, Comment_get_object(pk, user))
    ELSE /\ comments' = [comments EXCEPT ![pk].is_active = active]
         /\ ret' = CommentCall("moderate", pk, user, active, HTTP_200_OK)
         /\ UNCHANGED <<invitation, now, boards, role, board, feedback,
                        history, status_log, calls>>

\* is_active is a writable field of CommentSerializer
comment_partial_update(pk, user, active) ==
    IF Comment_get_object(pk, user) # HTTP_200_OK
    THEN CommentRefuse("comment_partial_update", pk, user, active,
                       Comment_get_object(pk, user))
    ELSE /\ comments' = [comments EXCEPT ![pk].is_active = active]
         /\ ret' = CommentCall("comment_partial_update", pk, user, active, HTTP_200_OK)
         /\ UNCHANGED <<invitation, now, boards, role, board, feedback,
                        history, status_log, calls>>

InitModerate ==
    /\ role = [u \in Users |-> DefaultRole(u)]
    /\ board = NewBoard
    /\ feedback = NewFeedback
    /\ history = <<>>
    /\ status_log = <<>>
    /\ calls = [c \in Calls |-> Idle]
    /\ ret = NoCall
    /\ invitation = NewInvitation
    /\ now = 0
    /\ boards = <<>>
    /\ \E author \in Requesters, up \in SUBSET Users, down \in SUBSET Users :
          /\ up \cap down = {}
          /\ comments = [NoComments EXCEPT ![1] =
                            [NewComment EXCEPT !.author = author, !.upvotes = up,
                                               !.downvotes = down]]

NextModerate ==
    \/ \E pk \in CommentIds, user \in Requesters, vote_type \in VoteTypes :
          comment_vote(pk, user, vote_type)
    \/ \E pk \in CommentIds, user \in Requesters : comment_remove_vote(pk, user)
    \/ \E pk \in CommentIds, user \in Requesters, active \in BOOLEAN :
          moderate(pk, user, active)
    \/ \E pk \in CommentIds, user \in Requesters, active \in BOOLEAN :
          comment_partial_update(pk, user, active)

SpecModerate == InitModerate /\ [][NextModerate]_vars

\* ---------------------------------------------------------------- claims
\* C1: after any sequence of completed add_vote and remove_vote calls on a
\* Feedback whose vote sets started disjoint, no user is in both upvotes and
\* downvotes.
C1_VoteExclusive == feedback.upvotes \cap feedback.downvotes = {}

\* a user who held a downvote has just upvoted successfully
C1_Witness ==
    /\ ret.op = "add_vote" /\ ret.result = TRUE /\ ret.arg = "upvote"
    /\ ret.user \in ret.pre.downvotes

Named(f, vote_type) == IF vote_type = "upvote" THEN f.upvotes ELSE f.downvotes

Opposite(f, vote_type) == IF vote_type = "upvote" THEN f.downvotes ELSE f.upvotes

OthersUntouched(user) ==
    \A w \in Users \ {user} :
        /\ (w \in feedback.upvotes) = (w \in ret.pre.upvotes)
        /\ (w \in feedback.downvotes) = (w \in ret.pre.downvotes)

\* C5: add_vote(u, t) with can_vote(u) and t in {upvote, downvote} returns
\* True, leaves u in the set t names and not in the opposite one whatever u
\* held before, and touches no other user's votes; upvote-then-downvote ends
\* in downvotes only, a first upvote raises vote_count by exactly 1, and a
\* repeated vote is not counted twice.
C5_AddVoteEffect ==
    (/\ ret.op = "add_vote"
     /\ Feedback_can_vote(ret.pre, board, ret.user)
     /\ ret.arg \in VoteChoices)
    => /\ ret.result = TRUE
       /\ ret.user \in Named(feedback, ret.arg)
       /\ ret.user \notin Opposite(feedback, ret.arg)
       /\ OthersUntouched(ret.user)
       /\ (ret.arg = "downvote" /\ ret.user \in ret.pre.upvotes
             => ret.user \in feedback.downvotes /\ ret.user \notin feedback.upvotes)
       /\ (ret.arg = "upvote" /\ ret.user \notin ret.pre.upvotes \cup ret.pre.downvotes
             => vote_count(feedback) = vote_count(ret.pre) + 1)
       /\ (ret.user \in Named(ret.pre, ret.arg)
             => /\ Named(feedback, ret.arg) = Named(ret.pre, ret.arg)
                /\ total_votes(feedback) = total_votes(ret.pre))

\* a user changes an upvote into a downvote while another user holds a vote
C5_Witness ==
    /\ ret.op = "add_vote" /\ ret.result = TRUE /\ ret.arg = "downvote"
    /\ ret.user \in ret.pre.upvotes
    /\ \E w \in Users \ {ret.user} : w \in ret.pre.upvotes /\ w \in feedback.upvotes

\* C6: add_vote(u, t) returns False, with both vote sets unchanged, exactly
\* when u is not authenticated, or the board has allow_voting false, or the
\* Feedback has is_active false, or t is neither 'upvote' nor 'downvote'; in
\* every other case it returns True.
C6_AddVoteRefusal ==
    ret.op = "add_vote" =>
        LET refused == \/ ret.user = Anon
                       \/ ~board.allow_voting
                       \/ ~ret.pre.is_active
                       \/ ret.arg \notin {"upvote", "downvote"}
        IN /\ (ret.result = FALSE) = refused
           /\ (refused => /\ feedback.upvotes = ret.pre.upvotes
                          /\ feedback.downvotes = ret.pre.downvotes)

\* an authenticated user's upvote on an active Feedback is refused because
\* the board does not allow voting
C6_Witness ==
    /\ ret.op = "add_vote" /\ ret.result = FALSE
    /\ ret.user # Anon /\ ret.arg = "upvote"
    /\ ret.pre.is_active /\ ~board.allow_voting

\* C7: remove_vote(u) takes u out of both vote sets with no permission or
\* state check, changes no other user's votes, and a second call leaves the
\* vote sets as the first call left them.
C7_RemoveVote ==
    ret.op = "remove_vote" =>
        /\ ret.user \notin feedback.upvotes
        /\ ret.user \notin feedback.downvotes
        /\ OthersUntouched(ret.user)
        /\ Feedback_remove_vote(feedback, ret.user).upvotes = feedback.upvotes
        /\ Feedback_remove_vote(feedback, ret.user).downvotes = feedback.downvotes

\* a downvote is removed while voting is disabled and another user holds a vote
C7_Witness ==
    /\ ret.op = "remove_vote"
    /\ ~board.allow_voting
    /\ ret.user \in ret.pre.downvotes
    /\ \E w \in Users \ {ret.user} : w \in feedback.upvotes \cup feedback.downvotes

\* C8: with add_vote and remove_vote interleaved at the granularity of their
\* single relation adds and removes, no state between two steps has a user
\* in both upvotes and downvotes.
C8_VoteExclusiveBetweenSteps ==
    \A u \in Users : ~(u \in feedback.upvotes /\ u \in feedback.downvotes)

\* C2: every change of the Feedback's status value, by whichever operation
\* (set-status, update, the admin status actions), produces exactly one
\* history record: the number of history records equals the number of times
\* the status value changed.
C2_OneRecordPerChange == Len(history) = Len(status_log)

CanEditBefore == Feedback_can_edit(ret.pre, board, ret.user)

SetStatusEffect ==
    /\ ret.result = HTTP_200_OK
    /\ feedback.status = ret.arg
    /\ IF ret.arg # ret.pre.status
       THEN /\ Len(history) = Len(ret.hist) + 1
            /\ SubSeq(history, 1, Len(ret.hist)) = ret.hist
            /\ history[Len(history)].old_status = ret.pre.status
            /\ history[Len(history)].new_status = ret.arg
       ELSE history = ret.hist

\* C3 as stated: a set-status request by a user for whom can_edit holds
\* succeeds for each of the 8 status values whatever the current status, and
\* appends exactly one record (old = status before, new = requested) when the
\* status differs and none when it is the same.
C3_SetStatusAlwaysSucceeds ==
    (ret.op = "set_status" /\ CanEditBefore /\ ret.arg \in Status) => SetStatusEffect

\* C3 amended: the same, for a Feedback whose is_active is true.
C3_SetStatusOnActive ==
    (ret.op = "set_status" /\ CanEditBefore /\ ret.arg \in Status /\ ret.pre.is_active)
        => SetStatusEffect

\* a completed Feedback is set back to draft by its author, who is neither
\* admin nor board moderator
C3_Witness ==
    /\ ret.op = "set_status" /\ ret.result = HTTP_200_OK
    /\ ret.user = ret.pre.author /\ ~is_admin(ret.user)
    /\ ret.pre.status = "completed" /\ ret.arg = "draft"
    /\ Len(history) = Len(ret.hist) + 1

LoggedChanges == {status_log[i] : i \in 1..Len(status_log)}

\* C4: with set-status requests interleaved step by step (load, pre-save
\* read, status write, post-save insert), no state has a change of the stored
\* status without its history record, no change has two records, and every
\* record's old_status is the status the Feedback held right before that
\* record's write: the records are, one for one, the changes that happened.
C4_HistoryAtomicWithStatus ==
    /\ Len(history) = Len(status_log)
    /\ \A i \in 1..Len(history) :
          <<history[i].old_status, history[i].new_status>> \in LoggedChanges

IsOwner(u) == u = board.owner

HasAdminRole(u) == u # Anon /\ role[u] = "admin"

\* not the owner, not a board moderator, not an admin
Outsider(u) == u # Anon /\ ~IsOwner(u) /\ u \notin board.moderators /\ ~HasAdminRole(u)

\* C9: can_access(u) is false for every user when the board is inactive,
\* true for every user (anonymous too) when it is active and public, and on
\* an active private board true exactly for an authenticated owner,
\* moderator, member or admin; a user without access has it once added to
\* members and loses it again once removed.
C9_CanAccess ==
    /\ \A u \in Requesters :
          /\ ~board.is_active => ~Board_can_access(board, u)
          /\ board.is_active /\ board.visibility = "public" => Board_can_access(board, u)
          /\ board.is_active /\ board.visibility = "private" =>
                (Board_can_access(board, u)
                   <=> /\ u # Anon
                       /\ \/ IsOwner(u)
                          \/ u \in board.moderators
                          \/ u \in board.members
                          \/ HasAdminRole(u))
    /\ ret.op = "add_member" /\ board.is_active => Board_can_access(board, ret.user)
    /\ (/\ ret.op = "remove_member" /\ Outsider(ret.user)
        /\ board.visibility = "private")
          => ~Board_can_access(board, ret.user)

\* on an active private board an outsider has just been added to members and
\* has access, while the anonymous user has none
C9_Witness ==
    /\ ret.op = "add_member" /\ Outsider(ret.user)
    /\ board.is_active /\ board.visibility = "private"
    /\ Board_can_access(board, ret.user)
    /\ ~Board_can_access(board, Anon)

\* C10: can_moderate(u) holds exactly for an authenticated owner, board
\* moderator or admin, can_edit(u) exactly for an authenticated owner or
\* admin; so a user only in moderators moderates but does not edit, a user
\* only in members does neither, and a user with the global role 'moderator'
\* who is neither owner nor board moderator does neither.
C10_ModerateAndEdit ==
    \A u \in Requesters :
        /\ Board_can_moderate(board, u)
             <=> (u # Anon /\ (IsOwner(u) \/ u \in board.moderators \/ HasAdminRole(u)))
        /\ Board_can_edit(board, u) <=> (u # Anon /\ (IsOwner(u) \/ HasAdminRole(u)))
        /\ (u \in board.moderators /\ ~IsOwner(u) /\ ~HasAdminRole(u))
             => Board_can_moderate(board, u) /\ ~Board_can_edit(board, u)
        /\ (u \in board.members /\ Outsider(u))
             => ~Board_can_moderate(board, u) /\ ~Board_can_edit(board, u)
        /\ (u # Anon /\ role[u] = "moderator" /\ ~IsOwner(u) /\ u \notin board.moderators)
             => ~Board_can_moderate(board, u) /\ ~Board_can_edit(board, u)

\* a user whose global role is 'moderator', a member of the board but neither its
\* owner nor (after remove-moderator) a board moderator, can do neither
C10_Witness ==
    /\ ret.op = "remove_moderator"
    /\ role[ret.user] = "moderator" /\ ~IsOwner(ret.user)
    /\ ret.user \in board.members
    /\ ~Board_can_moderate(board, ret.user) /\ ~Board_can_edit(board, ret.user)
    /\ Board_can_moderate(board, board.owner)


\* authenticated, and admin or the author or a moderator of the board
MayChange(u) ==
    /\ u # Anon
    /\ \/ HasAdminRole(u)
       \/ u = feedback.author
       \/ Board_can_moderate(board, u)

\* C11: can_edit(u) and can_delete(u) are equal for every user and Feedback
\* and hold exactly when u is authenticated and is admin, or the author, or
\* a moderator of the board; on an anonymous Feedback (author null) nobody
\* qualifies as the author.
C11_EditEqualsDelete ==
    /\ \A u \in Requesters :
          /\ Feedback_can_edit(feedback, board, u) = Feedback_can_delete(feedback, board, u)
          /\ Feedback_can_edit(feedback, board, u) <=> MayChange(u)
          /\ feedback.author = Anon =>
                (Feedback_can_delete(feedback, board, u)
                    <=> (u # Anon /\ (HasAdminRole(u) \/ Board_can_moderate(board, u))))
    /\ ret.op \in {"can_edit", "can_delete"} => (ret.result <=> MayChange(ret.user))

\* can_delete is true for the author, a contributor who is neither the
\* owner nor a moderator of the board
C11_Witness ==
    /\ ret.op = "can_delete" /\ ret.result = TRUE
    /\ ret.user = feedback.author /\ role[ret.user] = "contributor"
    /\ ~Board_can_moderate(board, ret.user)


\* C12: a set-status request by a user for whom can_edit is false (the
\* unauthenticated caller included) is refused and changes nothing: the
\* Feedback row, its status among it, is as before and no history record is
\* appended.
C12_SetStatusRefused ==
    (ret.op = "set_status" /\ ~CanEditBefore)
        => /\ ret.result # HTTP_200_OK
           /\ feedback = ret.pre
           /\ history = ret.hist

\* an authenticated user who is neither admin, author nor board moderator
\* asks for another status on an active Feedback and gets 403
C12_Witness ==
    /\ ret.op = "set_status" /\ ret.result = HTTP_403_FORBIDDEN
    /\ ret.user # Anon /\ ~CanEditBefore
    /\ ret.pre.is_active
    /\ ret.arg \in Status /\ ret.arg # ret.pre.status
    /\ feedback.status = ret.pre.status


\* C13: board access gates voting: a vote or remove-vote request by a user
\* for whom Board.can_access is false (an authenticated non-member of a
\* private board, any user of an inactive board) leaves the votes of a
\* Feedback of that board as they were.
C13_AccessGatesVoting ==
    (ret.op \in {"vote", "remove_vote"} /\ ~Board_can_access(board, ret.user))
        => /\ feedback.upvotes = ret.pre.upvotes
           /\ feedback.downvotes = ret.pre.downvotes


Responded == ret.op \in {"accept", "decline"}

\* the invitation was pending and the time was not after expires_at
Answerable == ret.pre.status = "pending" /\ ret.at <= ret.pre.expires_at

\* C14: accept(u) and decline(u) return False and change nothing (status,
\* responded_at, members, moderators) unless the invitation is pending and
\* the time is not after expires_at; accept after expiry leaves the status
\* pending and the membership as it was, and an accept or decline after a
\* successful one returns False without side effects.
C14_RefusedResponse ==
    (Responded /\ ~Answerable)
        => /\ ret.result = FALSE
           /\ invitation = ret.pre
           /\ board = ret.board

\* accept comes after expiry on a pending invitation: False, still pending,
\* nobody added, while an earlier time would have been in order
C14_Witness ==
    /\ ret.op = "accept" /\ ret.result = FALSE
    /\ ret.pre.status = "pending" /\ ret.at > ret.pre.expires_at
    /\ invitation.status = "pending" /\ invitation.responded_at = <<>>
    /\ ret.user \notin board.members \cup board.moderators

\* C15: a successful accept(u) adds exactly u to exactly one board set,
\* moderators if the invitation's role is 'moderator' and members otherwise,
\* and sets the status to accepted; a successful decline(u) sets the status
\* to declined and changes neither set.  Both return True (as they do for
\* every pending invitation that is not expired) and stamp responded_at.
C15_SuccessfulResponse ==
    /\ (Responded /\ Answerable) => ret.result = TRUE
    /\ (Responded /\ ret.result = TRUE)
          => /\ invitation.responded_at # <<>>
             /\ invitation.role = ret.pre.role
             /\ invitation.expires_at = ret.pre.expires_at
             /\ board.owner = ret.board.owner
    /\ (ret.op = "accept" /\ ret.result = TRUE)
          => /\ invitation.status = "accepted"
             /\ IF ret.pre.role = "moderator"
                THEN /\ board.moderators = ret.board.moderators \cup {ret.user}
                     /\ board.members = ret.board.members
                ELSE /\ board.members = ret.board.members \cup {ret.user}
                     /\ board.moderators = ret.board.moderators
    /\ (ret.op = "decline" /\ ret.result = TRUE)
          => /\ invitation.status = "declined"
             /\ board = ret.board

\* a moderator invitation is accepted at its expiry time by a user who was
\* in neither set
C15_Witness ==
    /\ ret.op = "accept" /\ ret.result = TRUE
    /\ ret.pre.role = "moderator" /\ ret.at = ret.pre.expires_at
    /\ ret.user \notin ret.board.moderators \cup ret.board.members
    /\ ret.user \in board.moderators /\ ret.user \notin board.members
    /\ invitation.status = "accepted"

\* C16: accepted and declined are terminal: once the invitation's status is
\* accepted or declined, no step of accept, decline or expire_invitations
\* changes it.
C16_TerminalStatus ==
    [][invitation.status \in {"accepted", "declined"}
          => invitation'.status = invitation.status]_vars


IsPrefix(s, t) == Len(s) <= Len(t) /\ SubSeq(t, 1, Len(s)) = s

\* C17: FeedbackStatusHistory is append-only: while the Feedback exists no
\* step modifies or removes one of its history records, so the history
\* after every step extends the history before it.
C17_AppendOnly == [][IsPrefix(history, history')]_vars


HeldSlugs(rows) == {rows[i].slug : i \in 1..Len(rows)}

\* base if no board holds it, else base-k for the smallest k >= 1 that no
\* board holds
ExpectedSlug(rows, base) ==
    IF base \notin HeldSlugs(rows) THEN base
    ELSE LET k == CHOOSE n \in 1..(Len(rows) + 1) :
                     /\ Suffixed(base, n) \notin HeldSlugs(rows)
                     /\ \A j \in 1..(n - 1) : Suffixed(base, j) \in HeldSlugs(rows)
         IN Suffixed(base, k)

\* C18: no two boards share a slug, and a board created without a slug
\* gets the slug derived from its name if no other board holds it, otherwise
\* base-k for the smallest k >= 1 such that no other board holds base-k.
C18_SlugFromName ==
    /\ \A i, j \in 1..Len(boards) : boards[i].slug = boards[j].slug => i = j
    /\ (ret.op = "create" /\ ret.arg = <<>>)
          => /\ ret.result = "created"
             /\ boards[Len(boards)].slug = ExpectedSlug(ret.pre, slugify(ret.name))

\* the same while no board holds the empty slug
SlugFromNameWhileNoEmptySlug ==
    /\ \A i, j \in 1..Len(boards) : boards[i].slug = boards[j].slug => i = j
    /\ (ret.op = "create" /\ ret.arg = <<>> /\ <<>> \notin HeldSlugs(boards))
          => /\ ret.result = "created"
             /\ boards[Len(boards)].slug = ExpectedSlug(ret.pre, slugify(ret.name))


\* the user is authenticated, the board allows voting, the Comment is active
CommentVotable == ret.user # Anon /\ board.allow_voting /\ ret.pre.is_active

\* C19: after any sequence of comment vote and remove-vote requests no
\* user is in both upvotes and downvotes of a Comment; a vote request by a
\* user for whom Comment.can_vote holds leaves the user in exactly the
\* requested set (an upvote by a user without a vote raises vote_count by
\* 1), and one by a user for whom it fails is refused with both sets as
\* they were.
C19_CommentVotes ==
    /\ \A pk \in CommentIds : comments[pk].upvotes \cap comments[pk].downvotes = {}
    /\ (/\ ret.op = "comment_vote" /\ ret.pre.exists
        /\ CommentVotable /\ ret.arg \in VoteChoices)
          => /\ ret.result = HTTP_200_OK
             /\ ret.user \in Named(comments[ret.pk], ret.arg)
             /\ ret.user \notin Opposite(comments[ret.pk], ret.arg)
             /\ (ret.arg = "upvote" /\ ret.user \notin ret.pre.upvotes \cup ret.pre.downvotes
                   => Comment_vote_count(comments[ret.pk]) = Comment_vote_count(ret.pre) + 1)
    /\ (ret.op = "comment_vote" /\ ret.pre.exists /\ ~CommentVotable)
          => /\ ret.result # HTTP_200_OK
             /\ comments = ret.all

\* a user who held a downvote on the Comment upvotes it and is in upvotes
\* only, while another user's vote stays
C19_Witness ==
    /\ ret.op = "comment_vote" /\ ret.result = HTTP_200_OK /\ ret.arg = "upvote"
    /\ ret.user \in ret.pre.downvotes
    /\ ret.user \in comments[ret.pk].upvotes /\ ret.user \notin comments[ret.pk].downvotes
    /\ \E w \in Users \ {ret.user} : w \in comments[ret.pk].downvotes

\* following parent from pk reaches a Comment without parent in at most n steps
RECURSIVE ReachesRoot(_, _)
ReachesRoot(pk, n) ==
    IF comments[pk].parent = Null THEN TRUE
    ELSE IF n = 0 THEN FALSE
    ELSE ReachesRoot(comments[pk].parent, n - 1)

\* C20: the parent relation is a forest: after any sequence of comment
\* create and update requests, following parent from any Comment reaches a
\* Comment with parent null in finitely many steps; no Comment is its own
\* parent or ancestor.
C20_ParentForest ==
    \A pk \in CommentIds : comments[pk].exists => ReachesRoot(pk, MaxComments)

\* following parent from c in the table rows reaches a within n + 1 steps
RECURSIVE HasAncestor(_, _, _, _)
HasAncestor(rows, c, a, n) ==
    /\ rows[c].parent # Null
    /\ \/ rows[c].parent = a
       \/ n > 0 /\ HasAncestor(rows, rows[c].parent, a, n - 1)

InSubtree(rows, c, root) ==
    rows[c].exists /\ (c = root \/ HasAncestor(rows, c, root, MaxThread))

\* C21: deleting a Comment removes that Comment and every Comment that has
\* it as an ancestor through parent (replies, replies of replies, ...), and
\* no Comment outside that subtree, which stays as it was.
C21_CascadeDelete ==
    (ret.op = "comment_destroy" /\ ret.result = HTTP_204_NO_CONTENT)
        => \A c \in ThreadIds :
              IF InSubtree(ret.all, c, ret.pk)
              THEN ~comments[c].exists
              ELSE comments[c] = ret.all[c]

\* a Comment with a reply, inactive and so out of the API's reach, and a
\* reply of that reply, is deleted: all three are gone
C21_Witness ==
    /\ ret.op = "comment_destroy" /\ ret.result = HTTP_204_NO_CONTENT
    /\ \E c, d \in ThreadIds \ {ret.pk} :
          /\ c # d
          /\ ret.all[c].exists /\ ret.all[c].parent = ret.pk /\ ~ret.all[c].is_active
          /\ ret.all[d].exists /\ ret.all[d].parent = c
          /\ ~comments[c].exists /\ ~comments[d].exists
    /\ ~comments[ret.pk].exists

DirectReplies(pk) == {c \in ThreadIds : comments[c].exists /\ comments[c].parent = pk}

InactiveDirectReplies(pk) == {c \in DirectReplies(pk) : ~comments[c].is_active}

\* C22: reply_count is the number of Comments whose parent is this Comment
\* and that are active, so the inactive direct replies and all deeper
\* descendants are not counted; is_reply is true exactly when parent is not
\* null.
C22_ReplyCount ==
    /\ \A pk \in ThreadIds : comments[pk].exists =>
          /\ Comment_reply_count(comments, pk)
                = Cardinality(DirectReplies(pk)) - Cardinality(InactiveDirectReplies(pk))
          /\ Comment_is_reply(comments, pk) <=> comments[pk].parent \in ThreadIds
    /\ ret.op = "reply_count" =>
          ret.result = Cardinality(DirectReplies(ret.pk) \ InactiveDirectReplies(ret.pk))
    /\ ret.op = "is_reply" => (ret.result <=> comments[ret.pk].parent # Null)

\* a top-level Comment with one inactive reply, which has an active reply of
\* its own, has reply_count 0
C22_Witness ==
    /\ ret.op = "reply_count" /\ ret.result = 0
    /\ comments[ret.pk].parent = Null
    /\ \E c, d \in ThreadIds \ {ret.pk} :
          /\ c # d
          /\ c \in InactiveDirectReplies(ret.pk)
          /\ comments[d].exists /\ comments[d].parent = c /\ comments[d].is_active

\* the request the last call answered may change the target's role
RoleChangeAllowed ==
    /\ ret.user # Anon
    /\ ret.pre[ret.user] = "admin"
    /\ ~(ret.arg.target = ret.user /\ ret.arg.value # "admin")

\* C23: a role-update request changes the target user's role only when the
\* requester has role admin, and never changes the requester's own role from
\* admin to another role; in every other case the request is refused and the
\* target's role is unchanged. No other user's role changes either, and an
\* accepted request leaves the target with the requested role.
C23_RoleUpdate ==
    ret.op = "role_update" =>
        /\ role # ret.pre => RoleChangeAllowed
        /\ ~RoleChangeAllowed => ret.result # HTTP_200_OK /\ role = ret.pre
        /\ ret.result = HTTP_200_OK =>
              role = [ret.pre EXCEPT ![ret.arg.target] = ret.arg.value]
        /\ ret.result # HTTP_200_OK => role = ret.pre

\* an admin asking to become a contributor is refused and stays admin
C23_WitnessSelfDemotion ==
    /\ ret.op = "role_update"
    /\ ret.arg.target = ret.user /\ ret.arg.value = "contributor"
    /\ ret.pre[ret.user] = "admin"
    /\ ret.result = HTTP_400_BAD_REQUEST
    /\ role[ret.user] = "admin"

\* an admin changes the role of another admin
C23_Witness ==
    /\ ret.op = "role_update" /\ ret.result = HTTP_200_OK
    /\ ret.arg.target # ret.user
    /\ ret.pre[ret.arg.target] = "admin" /\ role[ret.arg.target] = "moderator"

AdminExists == \E u \in Users : role[u] = "admin"

\* request by request, a role update never removes the last admin
AdminRemainsRequestByRequest == [][AdminExists => AdminExists']_vars

\* C29: starting with at least one admin, after any sequence of role-update
\* requests, requests of different admins interleaving between the checks and
\* the write included, at least one user still has role admin.
C29_AdminRemains == AdminExists

\* C24: creating a Feedback, with any initial status, appends no
\* FeedbackStatusHistory record, although its primary key is set before its
\* first save; the new row is stored with the status given.
C24_CreateNoHistory ==
    ret.op = "create" =>
        /\ history = ret.hist
        /\ ret.result = HTTP_201_CREATED =>
              /\ ret.pk \notin DOMAIN ret.rows
              /\ DOMAIN feedback = DOMAIN ret.rows \cup {ret.pk}
              /\ feedback[ret.pk].status = ret.arg
              /\ \A k \in DOMAIN ret.rows : feedback[k] = ret.rows[k]

\* a Feedback is created as completed next to a Feedback whose change of
\* status is in the history: the history is as before
C24_Witness ==
    /\ ret.op = "create" /\ ret.result = HTTP_201_CREATED
    /\ ret.arg = "completed"
    /\ DOMAIN ret.rows # {}
    /\ Len(history) = 1
    /\ feedback[ret.pk].status = "completed"

NoCallInFlight == \A c \in Calls : calls[c].pc = "idle"

\* C25: after any interleaving of add_vote calls by the same user on the
\* same Feedback, with no remove_vote involved, once all calls have
\* completed and returned True the user is in exactly one of upvotes and
\* downvotes: a vote cast with success is never lost. Stated for the user of
\* the call that completed last.
C25_VoteNotLost ==
    (NoCallInFlight /\ ret.op = "add_vote" /\ ret.result = TRUE)
        => (ret.user \in feedback.upvotes) # (ret.user \in feedback.downvotes)

\* request by request the vote is kept
C25_VoteKeptCallByCall ==
    (ret.op = "add_vote" /\ ret.result = TRUE)
        => (ret.user \in feedback.upvotes) # (ret.user \in feedback.downvotes)

ReturnedTrue == {c \in Calls : calls[c].pc = "done" /\ calls[c].result}

\* C26: for one BoardInvitation, over any interleaving of accept and decline
\* calls (the guard, the add to members or moderators and the write of the
\* status being separate steps), at most one call returns True and at most
\* one user is added to members or moderators by that invitation.
C26_OneResponse ==
    /\ Cardinality(ReturnedTrue) <= 1
    /\ Cardinality(board.members \cup board.moderators) <= 1

\* call by call, the first call answers the invitation and every later one
\* returns False
C26_OneResponseCallByCall ==
    /\ Cardinality(board.members \cup board.moderators) <= 1
    /\ (Responded /\ ret.result) => ret.pre.status = "pending"

\* call c writes its row in this step
Writes(c) == calls[c].pc = "write" /\ calls'[c].pc = "post_save"

\* C27: a set-status request changes only the Feedback's status: author,
\* assigned_to, is_active and both vote sets (and the other columns of the
\* row, which the model leaves out) keep the values they have in the store
\* when the request saves, also when another request has changed one of
\* them between this request's load and its save.
C27_OnlyStatusWritten ==
    [][\A c \in Calls :
          Writes(c) => feedback' = [feedback EXCEPT !.status = calls[c].instance.status]]_vars

\* request by request, set-status changes the status alone
C27_OnlyStatusRequestByRequest ==
    (ret.op = "set_status" /\ ret.result = HTTP_200_OK)
        => feedback = [ret.pre EXCEPT !.status = ret.arg]

\* C28: the permissions are nested. Board.can_edit(u) implies
\* Board.can_moderate(u); Board.can_moderate(u) on an active Board implies
\* Board.can_access(u); Board.can_moderate(u) implies Feedback.can_edit(u)
\* for the Feedback on the Board and Comment.can_edit(u) for the Comment on
\* that Feedback.
C28_NestedPermissions ==
    ret.op = "permissions" =>
        /\ ret.result.board_can_edit => ret.result.board_can_moderate
        /\ (ret.result.board_can_moderate /\ board.is_active) => ret.result.board_can_access
        /\ ret.result.board_can_moderate => ret.result.feedback_can_edit
        /\ ret.result.board_can_moderate => ret.result.comment_can_edit

\* a moderator of an active private Board who is neither its owner or
\* member, nor admin, nor the author: may moderate, access and edit the
\* Feedback and the Comment, may not edit the Board
C28_Witness ==
    /\ ret.op = "permissions"
    /\ ret.user \in board.moderators \ board.members
    /\ ret.user # board.owner /\ role[ret.user] = "contributor"
    /\ board.is_active /\ board.visibility = "private"
    /\ ret.user # feedback.author /\ ret.user # comments[1].author
    /\ ~ret.result.board_can_edit
    /\ ret.result.board_can_moderate /\ ret.result.board_can_access
    /\ ret.result.feedback_can_edit /\ ret.result.comment_can_edit

ApiRequest ==
    ret.op \in {"comment_vote", "comment_remove_vote", "moderate", "comment_partial_update"}

\* the Comment of the last request was in the store and inactive
OnInactive == ApiRequest /\ ret.pre.exists /\ ~ret.pre.is_active

\* the requester of the last request may edit the Comment as the request found it
MayEdit ==
    /\ ret.user # Anon
    /\ \/ role[ret.user] = "admin"
       \/ ret.user = ret.pre.author
       \/ ret.user = board.owner
       \/ ret.user \in board.moderators

\* a moderate request on an active Comment by a user who may edit it sets
\* is_active to the requested value and nothing else
ModerateSets ==
    (ret.op = "moderate" /\ ret.pre.exists /\ ret.pre.is_active /\ MayEdit)
        => /\ ret.result = HTTP_200_OK
           /\ comments = [ret.all EXCEPT ![ret.pk].is_active = ret.arg]

RefusedBeforeLookup ==
    ret.op \in {"comment_vote", "comment_remove_vote"} /\ ret.user = Anon

C30_NeverReactivated ==
    [][\A pk \in CommentIds :
          (comments[pk].exists /\ ~comments[pk].is_active) => comments'[pk] = comments[pk]]_vars

====
